---- MODULE Spec2Model ----
(***************************************************************************)
(* Model of the registry tag truncation scripts                            *)
(*   src/docker-registry/truncate_image.py      (manage_image_tags)        *)
(*   src/docker-registry/truncate_all_image.py  (truncate_all_images)      *)
(*                                                                         *)
(* A run is either one call of manage_image_tags (mode "single") or one    *)
(* call of truncate_all_images (mode "all").  The registry is the          *)
(* environment: every HTTP call is a step whose response is drawn from the *)
(* responses the registry can give.                                        *)
(***************************************************************************)
EXTENDS Integers, Sequences, FiniteSets

(***************************************************************************)
(* Bounds of the model.                                                    *)
(***************************************************************************)
MaxTags == 3
MaxTagsAll == 2
MaxKeep == 2
MaxRepos == 2
MaxTime == 2

(***************************************************************************)
(* Tags.  A tag name is modelled by what semver.Version.parse makes of it. *)
(* valid = FALSE is a name the parser rejects ("latest").  A valid name    *)
(* parses to major.0.0 or major.0.0-rc; alias tells apart distinct names   *)
(* whose parse gives the very same Version (same str(version)), which is   *)
(* the case sort_tags_with_dates groups on.  Registry tag names cannot     *)
(* hold "+", so build metadata is always empty and is not modelled.        *)
(* The versions are 1.0.0-rc < 1.0.0 < 2.0.0-rc < 2.0.0, each under two    *)
(* names.                                                                  *)
(***************************************************************************)
Majors == {1, 2}

Prereleases == {"", "rc"}

Aliases == {0, 1}

InvalidTag == [valid |-> FALSE, major |-> 0, prerelease |-> "", alias |-> 0]

ValidTags == [valid : {TRUE}, major : Majors, prerelease : Prereleases,
              alias : Aliases]

AllTags == ValidTags \cup {InvalidTag}

Range(s) == {s[i] : i \in DOMAIN s}

\* Sequences over S of length at most n in which no element occurs twice
\* (a tag name is unique within a repository).
ListsOf(S, n) ==
    {s \in UNION {[1..k -> S] : k \in 0..n} :
        \A i, j \in DOMAIN s : i # j => s[i] # s[j]}

(***************************************************************************)
(* semver                                                                  *)
(***************************************************************************)
is_valid_always(tag) == TRUE

\* semver.Version.is_valid(tag)
is_valid(tag) == tag.valid

\* semver.Version.parse(tag): the Version of a valid tag
Parse(tag) == [major |-> tag.major, prerelease |-> tag.prerelease]

\* str(version), the key of version_groups: the canonical text of the
\* Version, one text per Version
Str(version) == <<version.major, 0, 0, version.prerelease>>

\* version.prerelease is truthy
IsPrerelease(version) == version.prerelease # ""

\* Version.__lt__: precedence by major.minor.patch, then a pre-release is
\* lower than the release of the same major.minor.patch
VersionLess(v, w) ==
    \/ v.major < w.major
    \/ /\ v.major = w.major
       /\ v.prerelease # ""
       /\ w.prerelease = ""

(***************************************************************************)
(* Creation dates.  aware tells whether the datetime carries a UTC offset: *)
(* fromisoformat of a string that ends in "Z" or "+00:00" is aware, of a   *)
(* string without offset it is naive, and datetime.min is naive.           *)
(***************************************************************************)
datetime_min == [aware |-> FALSE, t |-> 0]

\* What the two GETs of get_tag_created_date can come to: an exception
\* (HTTP error, missing key), a config without "created", or a created
\* string.
CreatedResponses ==
    {[kind |-> "error", aware |-> FALSE, t |-> 0],
     [kind |-> "empty", aware |-> FALSE, t |-> 0]}
    \cup [kind : {"created"}, aware : BOOLEAN, t : 1..MaxTime]

\* get_tag_created_date, given the registry's response
get_tag_created_date(resp) ==
    IF resp.kind = "created"
    THEN [aware |-> resp.aware, t |-> resp.t]
    ELSE datetime_min

\* datetime.__lt__ raises TypeError between a naive and an aware datetime
DateCompareRaises(d, e) == d.aware # e.aware

DateLess(d, e) == d.t < e.t

(***************************************************************************)
(* list.sort: stable; with reverse=True equal keys keep their order too.   *)
(***************************************************************************)
\* x goes after every element that is not greater than it
InsertByDate(sorted, x, dates) ==
    LET n == Cardinality({i \in DOMAIN sorted :
                             ~ DateLess(dates[x], dates[sorted[i]])})
    IN SubSeq(sorted, 1, n) \o <<x>> \o SubSeq(sorted, n + 1, Len(sorted))

RECURSIVE SortByDateFrom(_, _, _)
SortByDateFrom(sorted, rest, dates) ==
    IF rest = <<>> THEN sorted
    ELSE SortByDateFrom(InsertByDate(sorted, Head(rest), dates), Tail(rest), dates)

\* group_with_dates.sort(key=lambda x: x[2])
SortByDate(group, dates) == SortByDateFrom(<<>>, group, dates)

InsertByVersion(sorted, x) ==
    LET n == Cardinality({i \in DOMAIN sorted :
                             ~ VersionLess(Parse(x), Parse(sorted[i]))})
    IN SubSeq(sorted, 1, n) \o <<x>> \o SubSeq(sorted, n + 1, Len(sorted))

RECURSIVE SortByVersionFrom(_, _)
SortByVersionFrom(sorted, rest) ==
    IF rest = <<>> THEN sorted
    ELSE SortByVersionFrom(InsertByVersion(sorted, Head(rest)), Tail(rest))

\* sorted_tags.sort(key=lambda x: x[0])
SortByVersion(tag_list) == SortByVersionFrom(<<>>, tag_list)

InsertByVersionReverse(sorted, x) ==
    LET n == Cardinality({i \in DOMAIN sorted :
                             ~ VersionLess(Parse(sorted[i]), Parse(x))})
    IN SubSeq(sorted, 1, n) \o <<x>> \o SubSeq(sorted, n + 1, Len(sorted))

RECURSIVE SortByVersionReverseFrom(_, _)
SortByVersionReverseFrom(sorted, rest) ==
    IF rest = <<>> THEN sorted
    ELSE SortByVersionReverseFrom(InsertByVersionReverse(sorted, Head(rest)),
                                  Tail(rest))

\* all_versions.sort(key=lambda x: x[0], reverse=True)
SortByVersionReverse(tag_list) == SortByVersionReverseFrom(<<>>, tag_list)

(***************************************************************************)
(* sort_tags_with_dates                                                    *)
(***************************************************************************)
\* the keys of version_groups, in insertion order
RECURSIVE GroupKeys(_)
GroupKeys(tag_list) ==
    IF tag_list = <<>> THEN <<>>
    ELSE LET k == Str(Parse(Head(tag_list)))
         IN <<k>> \o SelectSeq(GroupKeys(Tail(tag_list)), LAMBDA x : x # k)

\* version_groups[version_key]
Group(tag_list, version_key) ==
    SelectSeq(tag_list, LAMBDA tag : Str(Parse(tag)) = version_key)

\* the tags get_tag_created_date is called for: the members of the groups
\* of more than one tag
TagsToDate(tag_list) ==
    {tag \in Range(tag_list) : Len(Group(tag_list, Str(Parse(tag)))) > 1}

\* sorting the group compares a naive with an aware datetime: TypeError
GroupRaises(group, dates) ==
    \E a, b \in Range(group) : DateCompareRaises(dates[a], dates[b])

\* the tags whose date is fetched before sort_tags_with_dates ends: the
\* groups are taken in turn, each one fetched and sorted, up to the first
\* whose sort raises
RECURSIVE FetchedTags(_, _, _)
FetchedTags(keys, tag_list, dates) ==
    IF keys = <<>> THEN {}
    ELSE LET group == Group(tag_list, Head(keys))
         IN IF Len(group) <= 1
            THEN FetchedTags(Tail(keys), tag_list, dates)
            ELSE IF GroupRaises(group, dates)
            THEN Range(group)
            ELSE Range(group) \cup FetchedTags(Tail(keys), tag_list, dates)

\* some group's sort raises
SortRaises(tag_list, dates) ==
    \E tag \in TagsToDate(tag_list) :
        GroupRaises(Group(tag_list, Str(Parse(tag))), dates)

RECURSIVE ExtendGroups(_, _, _)
ExtendGroups(keys, tag_list, dates) ==
    IF keys = <<>> THEN <<>>
    ELSE LET group == Group(tag_list, Head(keys))
         IN (IF Len(group) > 1 THEN SortByDate(group, dates) ELSE group)
            \o ExtendGroups(Tail(keys), tag_list, dates)

sort_tags_with_dates(tag_list, dates) ==
    SortByVersion(ExtendGroups(GroupKeys(tag_list), tag_list, dates))

(***************************************************************************)
(* The retention selection of manage_image_tags                            *)
(***************************************************************************)
Last(s) == s[Len(s)]

KeepLatestStableNone(stable) == {}

\* "Always keep at least 1 latest stable version if available"
KeepLatestStable(stable) ==
    IF stable # <<>> THEN {Last(stable)} ELSE {}

KeepLatestPrereleaseNone(stable, prerelease) == {}

\* "Always keep at least 1 latest pre-release if it's newer than latest
\* stable"
KeepLatestPrerelease(stable, prerelease) ==
    IF /\ prerelease # <<>>
       /\ \/ stable = <<>>
          \/ VersionLess(Parse(Last(stable)), Parse(Last(prerelease)))
    THEN {Last(prerelease)}
    ELSE {}

RECURSIVE FillSlotsOneMore(_, _, _)
FillSlotsOneMore(all_versions, to_keep, k) ==
    IF all_versions = <<>> \/ Cardinality(to_keep) > k THEN to_keep
    ELSE FillSlotsOneMore(Tail(all_versions),
                          to_keep \cup {Head(all_versions)}, k)

RECURSIVE FillSlotsOneLess(_, _, _)
FillSlotsOneLess(all_versions, to_keep, k) ==
    IF all_versions = <<>> \/ Cardinality(to_keep) >= k - 1 THEN to_keep
    ELSE FillSlotsOneLess(Tail(all_versions),
                          to_keep \cup {Head(all_versions)}, k)

\* for version, tag in all_versions: break at len(tags_to_keep) >= keep,
\* else add the tag
RECURSIVE FillSlots(_, _, _)
FillSlots(all_versions, to_keep, k) ==
    IF all_versions = <<>> \/ Cardinality(to_keep) >= k THEN to_keep
    ELSE FillSlots(Tail(all_versions), to_keep \cup {Head(all_versions)}, k)

\* tags_to_keep as it stands when the fill loop ends
KeepSet(stable, prerelease, k) ==
    FillSlots(SortByVersionReverse(stable \o prerelease),
              KeepLatestStable(stable)
                  \cup KeepLatestPrerelease(stable, prerelease),
              k)

\* tags_to_delete
DeleteList(versions, to_keep) ==
    SelectSeq(versions, LAMBDA tag : tag \notin to_keep)

(***************************************************************************)
(* State                                                                   *)
(***************************************************************************)
VARIABLES
    mode,             \* "single": manage_image_tags, "all": truncate_all_images
    keep,             \* the keep argument
    pc,               \* where the run stands
    exc,              \* the exception that ended the run, "" if none
    repositories,     \* truncate_all_images: the catalog listing
    repo_i,           \* truncate_all_images: position of the for loop
    repository,       \* manage_image_tags: the repository argument
    tags,             \* manage_image_tags locals ...
    version_tags,
    stable_tags,
    prerelease_tags,
    tags_to_keep,
    tags_to_delete,
    del_i,            \* position of the delete loop
    created,          \* created_date of each tag it was fetched for
    called,           \* kinds of registry calls made in this run
    passed,           \* repositories manage_image_tags was called for
    attempted,        \* tags delete_tag was called for in this pass
    deleted,          \* tags whose manifest DELETE returned 202 in this pass
    gone,             \* tags of the repository whose manifest this pass removed
    failed            \* tags reported "Failed to delete tag" in this pass

locals == <<tags, version_tags, stable_tags, prerelease_tags, tags_to_keep,
            tags_to_delete, del_i, created, attempted, deleted, gone,
            failed>>

vars == <<mode, keep, pc, exc, repositories, repo_i, repository, locals,
          called, passed>>

NoFunction == [x \in {} |-> x]

\* no pass is under way
NoLocals ==
    /\ tags = <<>>
    /\ version_tags = <<>>
    /\ stable_tags = <<>>
    /\ prerelease_tags = <<>>
    /\ tags_to_keep = {}
    /\ tags_to_delete = <<>>
    /\ del_i = 0
    /\ created = NoFunction
    /\ attempted = {}
    /\ deleted = {}
    /\ gone = {}
    /\ failed = {}

Init ==
    /\ mode \in {"single", "all"}
    /\ keep \in 0..MaxKeep
    /\ pc = IF mode = "single" THEN "manage" ELSE "catalog"
    /\ exc = ""
    /\ repositories = <<>>
    /\ repo_i = 0
    /\ repository = IF mode = "single" THEN 1 ELSE 0
    /\ NoLocals
    /\ called = {}
    /\ passed = {}

\* an exception nobody catches ends the run
Raise(e) ==
    /\ pc' = "raised"
    /\ exc' = e

(***************************************************************************)
(* truncate_all_images                                                     *)
(***************************************************************************)
\* repositories = get_repositories(...): raise_for_status may raise
GetRepositories ==
    /\ pc = "catalog"
    /\ called' = called \cup {"catalog"}
    /\ \/ /\ Raise("HTTPError")
          /\ UNCHANGED repositories
       \/ /\ \E n \in 0..MaxRepos : repositories' = [i \in 1..n |-> i]
          /\ pc' = "loop"
          /\ UNCHANGED exc
    /\ UNCHANGED <<mode, keep, repo_i, repository, locals, passed>>

\* for repository in repositories: manage_image_tags(...)
NextRepository ==
    /\ pc = "loop"
    /\ IF repo_i < Len(repositories)
       THEN /\ repo_i' = repo_i + 1
            /\ repository' = repositories[repo_i + 1]
            /\ pc' = "manage"
       ELSE /\ pc' = "done"
            /\ UNCHANGED <<repo_i, repository>>
    /\ UNCHANGED <<mode, keep, exc, repositories, locals, called, passed>>

(***************************************************************************)
(* manage_image_tags                                                       *)
(***************************************************************************)
\* entry: if keep <= 0: raise ValueError
ManageImageTags ==
    /\ pc = "manage"
    /\ passed' = passed \cup {repository}
    /\ IF keep <= 0
       THEN Raise("ValueError")
       ELSE /\ pc' = "tags"
            /\ UNCHANGED exc
    /\ UNCHANGED <<mode, keep, repositories, repo_i, repository, locals,
                   called>>

\* the tag lists a repository can hold in this run
TagLists == ListsOf(AllTags, IF mode = "single" THEN MaxTags ELSE MaxTagsAll)

\* tags = get_image_tags(...), the None return, the filter on valid
\* versions and the split in stable and pre-release
GetImageTags ==
    /\ pc = "tags"
    /\ called' = called \cup {"tags"}
    /\ \/ /\ Raise("HTTPError")
          /\ UNCHANGED <<tags, version_tags, stable_tags, prerelease_tags>>
       \/ \* "tags": null
          /\ pc' = "return"
          /\ UNCHANGED <<exc, tags, version_tags, stable_tags,
                         prerelease_tags>>
       \/ \E response \in TagLists :
             LET versions == SelectSeq(response, is_valid) IN
             /\ tags' = response
             /\ version_tags' = versions
             /\ stable_tags' =
                    SelectSeq(versions, LAMBDA t : ~ IsPrerelease(Parse(t)))
             /\ prerelease_tags' =
                    SelectSeq(versions, LAMBDA t : IsPrerelease(Parse(t)))
             /\ pc' = IF versions = <<>> THEN "return" ELSE "sort_stable"
             /\ UNCHANGED exc
    /\ UNCHANGED <<mode, keep, repositories, repo_i, repository,
                   tags_to_keep, tags_to_delete, del_i, created, attempted,
                   deleted, gone, failed, passed>>

\* f extended by g on g's domain
Extend(f, g) ==
    [x \in DOMAIN f \cup DOMAIN g |-> IF x \in DOMAIN g THEN g[x] ELSE f[x]]

\* f on the part S of its domain
Restrict(f, S) == [x \in S |-> f[x]]

\* the creation dates computed from the responses
Dates(responses) ==
    [tag \in DOMAIN responses |-> get_tag_created_date(responses[tag])]

\* stable_tags = sort_tags_with_dates(stable_tags)
SortStable ==
    /\ pc = "sort_stable"
    /\ \E responses \in [TagsToDate(stable_tags) -> CreatedResponses] :
          /\ created' = Extend(created,
                 Restrict(Dates(responses),
                          FetchedTags(GroupKeys(stable_tags), stable_tags,
                                      Dates(responses))))
          /\ called' = IF DOMAIN responses = {} THEN called
                       ELSE called \cup {"created"}
          /\ IF SortRaises(stable_tags, Dates(responses))
             THEN /\ Raise("TypeError")
                  /\ UNCHANGED stable_tags
             ELSE /\ stable_tags' =
                        sort_tags_with_dates(stable_tags, Dates(responses))
                  /\ pc' = "sort_prerelease"
                  /\ UNCHANGED exc
    /\ UNCHANGED <<mode, keep, repositories, repo_i, repository, tags,
                   version_tags, prerelease_tags, tags_to_keep,
                   tags_to_delete, del_i, attempted, deleted, gone, failed,
                   passed>>

\* prerelease_tags = sort_tags_with_dates(prerelease_tags)
SortPrerelease ==
    /\ pc = "sort_prerelease"
    /\ \E responses \in [TagsToDate(prerelease_tags) -> CreatedResponses] :
          /\ created' = Extend(created,
                 Restrict(Dates(responses),
                          FetchedTags(GroupKeys(prerelease_tags), prerelease_tags,
                                      Dates(responses))))
          /\ called' = IF DOMAIN responses = {} THEN called
                       ELSE called \cup {"created"}
          /\ IF SortRaises(prerelease_tags, Dates(responses))
             THEN /\ Raise("TypeError")
                  /\ UNCHANGED prerelease_tags
             ELSE /\ prerelease_tags' =
                        sort_tags_with_dates(prerelease_tags, Dates(responses))
                  /\ pc' = "select"
                  /\ UNCHANGED exc
    /\ UNCHANGED <<mode, keep, repositories, repo_i, repository, tags,
                   version_tags, stable_tags, tags_to_keep, tags_to_delete,
                   del_i, attempted, deleted, gone, failed, passed>>

\* the two floors, the fill loop and tags_to_delete
Select ==
    /\ pc = "select"
    /\ LET to_keep == KeepSet(stable_tags, prerelease_tags, keep)
           to_delete == DeleteList(version_tags, to_keep)
       IN /\ tags_to_keep' = to_keep
          /\ tags_to_delete' = to_delete
          /\ IF to_delete # <<>>
             THEN pc' = "delete" /\ del_i' = 1
             ELSE pc' = "return" /\ UNCHANGED del_i
    /\ UNCHANGED <<mode, keep, exc, repositories, repo_i, repository, tags,
                   version_tags, stable_tags, prerelease_tags, created,
                   attempted, deleted, gone, failed, called, passed>>

\* The digest the HEAD of a tag resolves to is the digest of an image, and
\* several tags of a repository can name one image.  The other tags that
\* resolve to the digest of tag: any of the tags whose manifest is still
\* there.
SharedWith(tag) == SUBSET (Range(tags) \ (gone \cup {tag}))

\* DELETE /manifests/<digest> answered 202: the manifest is removed, and
\* with it every tag that resolved to the digest
RemoveManifest(removed, tag, shared) == removed \cup {tag} \cup shared

DeleteTagKeepsFailed ==
    /\ pc = "delete"
    /\ LET tag == tags_to_delete[del_i] IN
       /\ attempted' = attempted \cup {tag}
       /\ \/ /\ Raise("HTTPError")
             /\ called' = called \cup {"head"}
             /\ UNCHANGED <<deleted, failed, del_i, tags_to_keep>>
          \/ /\ Raise("ConnectionError")
             /\ called' = called \cup {"head", "delete"}
             /\ UNCHANGED <<deleted, failed, del_i, tags_to_keep>>
          \/ /\ called' = called \cup {"head", "delete"}
             /\ \/ /\ deleted' = deleted \cup {tag}
                   /\ UNCHANGED <<failed, tags_to_keep>>
                \/ /\ failed' = failed \cup {tag}
                   /\ tags_to_keep' = tags_to_keep \cup {tag}
                   /\ UNCHANGED deleted
             /\ del_i' = del_i + 1
             /\ pc' = IF del_i = Len(tags_to_delete) THEN "return" ELSE "delete"
             /\ UNCHANGED exc
    /\ UNCHANGED <<mode, keep, repositories, repo_i, repository, tags,
                   version_tags, stable_tags, prerelease_tags,
                   tags_to_delete, created, gone, passed>>

\* one turn of "for tag in tags_to_delete: delete_tag(...)".  delete_tag:
\* HEAD the manifest (raise_for_status may raise), then DELETE the digest
\* (status 202, another status, or the request raises)
DeleteTag ==
    /\ pc = "delete"
    /\ LET tag == tags_to_delete[del_i] IN
       /\ attempted' = attempted \cup {tag}
       /\ \/ /\ Raise("HTTPError")
             /\ called' = called \cup {"head"}
             /\ UNCHANGED <<deleted, failed, del_i>>
          \/ /\ Raise("ConnectionError")
             /\ called' = called \cup {"head", "delete"}
             /\ UNCHANGED <<deleted, failed, del_i>>
          \/ /\ called' = called \cup {"head", "delete"}
             /\ \/ /\ deleted' = deleted \cup {tag}
                   /\ UNCHANGED failed
                \/ /\ failed' = failed \cup {tag}
                   /\ UNCHANGED deleted
             /\ del_i' = del_i + 1
             /\ pc' = IF del_i = Len(tags_to_delete) THEN "return" ELSE "delete"
             /\ UNCHANGED exc
    /\ UNCHANGED <<mode, keep, repositories, repo_i, repository, tags,
                   version_tags, stable_tags, prerelease_tags, tags_to_keep,
                   tags_to_delete, created, gone, passed>>

(***************************************************************************)
(* The delete step with the manifests of the registry followed: gone holds *)
(* the tags of the repository that resolve to no manifest any more.        *)
(***************************************************************************)
\* one turn of the delete loop.  delete_tag: HEAD the manifest of the tag
\* for its digest (raise_for_status raises on an error status, which is
\* all the registry answers once the manifest is gone), then DELETE the
\* digest (status 202, another status, or the request raises)
DeleteTagInRegistry ==
    /\ pc = "delete"
    /\ LET tag == tags_to_delete[del_i] IN
       /\ attempted' = attempted \cup {tag}
       /\ \/ /\ Raise("HTTPError")
             /\ called' = called \cup {"head"}
             /\ UNCHANGED <<deleted, gone, failed, del_i>>
          \/ /\ tag \notin gone
             /\ Raise("ConnectionError")
             /\ called' = called \cup {"head", "delete"}
             /\ UNCHANGED <<deleted, gone, failed, del_i>>
          \/ /\ tag \notin gone
             /\ called' = called \cup {"head", "delete"}
             /\ \/ /\ deleted' = deleted \cup {tag}
                   /\ \E shared \in SharedWith(tag) :
                         gone' = RemoveManifest(gone, tag, shared)
                   /\ UNCHANGED failed
                \/ /\ failed' = failed \cup {tag}
                   /\ UNCHANGED <<deleted, gone>>
             /\ del_i' = del_i + 1
             /\ pc' = IF del_i = Len(tags_to_delete) THEN "return" ELSE "delete"
             /\ UNCHANGED exc
    /\ UNCHANGED <<mode, keep, repositories, repo_i, repository, tags,
                   version_tags, stable_tags, prerelease_tags, tags_to_keep,
                   tags_to_delete, created, passed>>

\* manage_image_tags returns: its locals are gone
Return ==
    /\ pc = "return"
    /\ pc' = IF mode = "all" THEN "loop" ELSE "done"
    /\ tags' = <<>>
    /\ version_tags' = <<>>
    /\ stable_tags' = <<>>
    /\ prerelease_tags' = <<>>
    /\ tags_to_keep' = {}
    /\ tags_to_delete' = <<>>
    /\ del_i' = 0
    /\ created' = NoFunction
    /\ attempted' = {}
    /\ deleted' = {}
    /\ gone' = {}
    /\ failed' = {}
    /\ UNCHANGED <<mode, keep, exc, repositories, repo_i, repository, called,
                   passed>>

Next ==
    \/ GetRepositories
    \/ NextRepository
    \/ ManageImageTags
    \/ GetImageTags
    \/ SortStable
    \/ SortPrerelease
    \/ Select
    \/ DeleteTag
    \/ Return

Spec == Init /\ [][Next]_vars

\* the run with the manifests of the registry followed
NextRegistry ==
    \/ GetRepositories
    \/ NextRepository
    \/ ManageImageTags
    \/ GetImageTags
    \/ SortStable
    \/ SortPrerelease
    \/ Select
    \/ DeleteTagInRegistry
    \/ Return

SpecRegistry == Init /\ [][NextRegistry]_vars

(***************************************************************************)
(* Properties                                                              *)
(***************************************************************************)
\* the fill loop of the pass under way has ended
KeepComputed ==
    \/ pc = "delete"
    \/ pc = "return" /\ version_tags # <<>>
    \/ pc = "raised" /\ attempted # {}

\* the run has ended
Ended == pc \in {"done", "raised"}

StableSet == {t \in Range(version_tags) : t.prerelease = ""}

PrereleaseSet == {t \in Range(version_tags) : t.prerelease # ""}

\* position of tag in the sequence s
Index(s, tag) == CHOOSE i \in DOMAIN s : s[i] = tag

\* the creation date of the tag was fetched and the registry gave one
Available(tag) == tag \in DOMAIN created /\ created[tag].t >= 1

\* C1: once the keep-set of a pass with at least one stable version tag is
\* computed, the last tag of the ascending stable sequence is a stable tag
\* of the highest stable version, is in the keep-set, is not in the delete
\* list and delete_tag is never called for it.
C1_NewestStableKept ==
    (KeepComputed /\ StableSet # {}) =>
        /\ Last(stable_tags) \in StableSet
        /\ \A t \in StableSet :
              ~ VersionLess(Parse(Last(stable_tags)), Parse(t))
        /\ Last(stable_tags) \in tags_to_keep
        /\ Last(stable_tags) \notin Range(tags_to_delete) \cup attempted

\* C1 witness: keep = 1, a pre-release above two stable tags; the pass has
\* ended with the older stable tag deleted, the newest stable kept
C1_Witness ==
    /\ pc = "return"
    /\ keep = 1
    /\ Cardinality(StableSet) = 2
    /\ PrereleaseSet # {}
    /\ \A t \in StableSet :
          VersionLess(Parse(t), Parse(Last(prerelease_tags)))
    /\ Last(stable_tags) \in tags_to_keep
    /\ deleted # {}

\* C2 as claimed: every pre-release tag whose version exceeds the version
\* of every stable tag (none, if there is no stable tag) is in the
\* keep-set.  Taken on the tags that are the only name of their version.
C2_Original ==
    KeepComputed =>
        \A p \in PrereleaseSet :
            (/\ \A t \in StableSet : VersionLess(Parse(t), Parse(p))
             /\ \A q \in PrereleaseSet \ {p} : Parse(q) # Parse(p))
                => p \in tags_to_keep

\* C2 amended: if the newest pre-release tag (the last of the ascending
\* pre-release sequence) exceeds the version of every stable tag, or there
\* is no stable tag, it is in the keep-set and not in the delete list.
C2_NewestPrereleaseKept ==
    (/\ KeepComputed
     /\ PrereleaseSet # {}
     /\ \A t \in StableSet :
           VersionLess(Parse(t), Parse(Last(prerelease_tags))))
    => /\ Last(prerelease_tags) \in PrereleaseSet
       /\ \A p \in PrereleaseSet :
             ~ VersionLess(Parse(Last(prerelease_tags)), Parse(p))
       /\ Last(prerelease_tags) \in tags_to_keep
       /\ Last(prerelease_tags) \notin Range(tags_to_delete) \cup attempted

\* C2 witness: keep = 1, one stable tag and two pre-release names of one
\* higher version; the newest of the two is kept, the other deleted
C2_Witness ==
    /\ pc = "return"
    /\ keep = 1
    /\ Cardinality(StableSet) = 1
    /\ Cardinality(PrereleaseSet) = 2
    /\ \A t \in StableSet :
          VersionLess(Parse(t), Parse(Last(prerelease_tags)))
    /\ Last(prerelease_tags) \in tags_to_keep
    /\ deleted \cap PrereleaseSet # {}

Min(a, b) == IF a <= b THEN a ELSE b

Max(a, b) == IF a >= b THEN a ELSE b

\* C3: the keep-set holds at least min(keep, number of valid version tags)
\* tags; when it holds more than keep it is exactly the newest stable and
\* the newest pre-release tag; so it holds at most max(keep, 2).
C3_KeepSetSize ==
    KeepComputed =>
        /\ Cardinality(tags_to_keep) >= Min(keep, Len(version_tags))
        /\ Cardinality(tags_to_keep) > keep =>
              /\ stable_tags # <<>>
              /\ prerelease_tags # <<>>
              /\ tags_to_keep = {Last(stable_tags), Last(prerelease_tags)}
        /\ Cardinality(tags_to_keep) <= Max(keep, 2)
        /\ tags_to_keep \subseteq Range(version_tags)

\* C3 witness: both floors with keep = 1: two tags kept, a third deleted
C3_Witness ==
    /\ pc = "return"
    /\ keep = 1
    /\ Cardinality(tags_to_keep) = 2
    /\ Len(version_tags) = 3
    /\ deleted # {}

\* C4 as claimed: of two tags of one version with differing available
\* creation dates, one kept and one in the delete list, the kept one is
\* the newer.
C4_Original ==
    KeepComputed =>
        \A a \in tags_to_keep : \A b \in Range(tags_to_delete) :
            (/\ Parse(a) = Parse(b)
             /\ Available(a)
             /\ Available(b)
             /\ created[a].t # created[b].t)
            => created[b].t < created[a].t

\* C5: a tag that is no valid version is never in the keep-set, never in
\* the delete list, and delete_tag is never called for it.
C5_InvalidIgnored ==
    \A t \in tags_to_keep \cup Range(tags_to_delete) \cup attempted : t.valid

\* C5 witness: a pass over a list with an invalid tag has deleted a tag
C5_Witness ==
    /\ pc = "return"
    /\ InvalidTag \in Range(tags)
    /\ deleted # {}

\* C6 as claimed: when a pass has ended, in whatever way, delete_tag was
\* called for every tag of its delete list.
C6_Original ==
    (pc \in {"return", "raised"} /\ tags_to_delete # <<>>) =>
        Range(tags_to_delete) \subseteq attempted

\* C7 as claimed: when a run of truncate_all_images with keep >= 1 has
\* ended after the catalog was listed, manage_image_tags was called for
\* every repository of the listing.
C7_Original ==
    (Ended /\ mode = "all" /\ keep >= 1) =>
        Range(repositories) \subseteq passed

\* C8 as claimed: with keep <= 0 no registry call is ever made, no tag is
\* processed, and the run ends with the configuration error.
C8_Original ==
    keep <= 0 =>
        /\ called = {}
        /\ tags = <<>>
        /\ Ended => exc = "ValueError"

\* C9 as claimed: a tag of a group of several whose creation date fetch
\* gave no date never makes the pass raise, has the minimum date, and
\* stands before every tag of its group whose date is available.
C9_Original ==
    \A t \in DOMAIN created :
        created[t] = datetime_min =>
            /\ exc # "TypeError"
            /\ \A u \in DOMAIN created :
                  (Parse(u) = Parse(t) /\ Available(u)) =>
                     LET s == IF IsPrerelease(Parse(t)) THEN prerelease_tags
                              ELSE stable_tags
                     IN Index(s, t) < Index(s, u)

\* C10: from the first delete_tag call of a pass until the pass returns,
\* the keep-set does not change and no creation date is fetched; and no
\* tag delete_tag was called for is in the keep-set.
C10_KeepSetBeforeDeletes ==
    [][((pc = "delete" \/ attempted # {}) /\ pc # "return") =>
          /\ tags_to_keep' = tags_to_keep
          /\ created' = created
          /\ attempted' \cap tags_to_keep' = {}]_vars

\* C10 witness: dates were fetched, the keep-set computed, and two
\* delete_tag calls made
C10_Witness ==
    /\ pc = "return"
    /\ DOMAIN created # {}
    /\ Cardinality(attempted) = 2
    /\ tags_to_keep # {}

\* the tag list of the pass under way has been fetched and filtered
TagsListed == tags # <<>> /\ pc \in {"sort_stable", "sort_prerelease",
                                     "select", "delete", "return", "raised"}

\* C11: in a pass with keep >= 1 over at most keep valid version tags (none
\* included) the delete list stays empty, the delete loop is never entered
\* and delete_tag is called for no tag; once the keep-set is computed it
\* holds every valid version tag.
C11_NothingToDelete ==
    (TagsListed /\ Len(version_tags) <= keep) =>
        /\ tags_to_delete = <<>>
        /\ pc # "delete"
        /\ attempted = {}
        /\ deleted = {}
        /\ mode = "single" => called \cap {"head", "delete"} = {}
        /\ KeepComputed => tags_to_keep = Range(version_tags)

\* C11 witness: keep = 2, a list of two valid version tags and one invalid
\* tag; the pass has ended with both kept
C11_Witness ==
    /\ pc = "return"
    /\ keep = 2
    /\ Len(tags) = 3
    /\ Len(version_tags) = 2
    /\ tags_to_keep = Range(version_tags)
    /\ attempted = {}

\* C12 as claimed: the min(keep, s) newest of the s stable tags (the last
\* ones of the ascending stable sequence) are all in the keep-set and none
\* is in the delete list, whatever pre-release tags there are.  Taken on
\* the passes in which every version has one name only.
C12_Original ==
    (/\ KeepComputed
     /\ \A t, u \in Range(version_tags) : Parse(t) = Parse(u) => t = u)
    => \A i \in DOMAIN stable_tags :
          i > Len(stable_tags) - Min(keep, Len(stable_tags)) =>
              /\ stable_tags[i] \in tags_to_keep
              /\ stable_tags[i] \notin Range(tags_to_delete)

\* C13 as claimed: no tag of the keep-set loses its manifest by the
\* delete_tag calls of the pass: every kept tag still resolves.
C13_Original == KeepComputed => tags_to_keep \cap gone = {}

====
